---- MODULE Spec2Model ----
(***************************************************************************)
(* Model of src/main.rs: FeedHandler::connect (the ingestion loop), the    *)
(* shared Vec<MarketData> behind a tokio RwLock, and get_latest_data.      *)
(***************************************************************************)
EXTENDS Integers, Sequences, FiniteSets, TLC

(* ------------------------------ bounds --------------------------------- *)

\* Items (frames, an error, the end of the stream) the transport delivers
\* during one run of connect.
MaxFrames == 2

\* Calls of get_latest_data made by each reader task.
MaxReads == 1

\* The tasks that may call get_latest_data: the polling loop of main, and
\* one more task holding a clone of the handler.
Readers == {"r1", "r2"}

\* The polling loop of main.rs:116-128.
MainLoop == {"r1"}

(* --------------------------- program constants ------------------------- *)

\* main.rs:65  `if data.len() > 1000`
Capacity == 1000

(* ------------------------------ helpers -------------------------------- *)

Min(a, b) == IF a < b THEN a ELSE b

Range(s) == {s[i] : i \in 1..Len(s)}

\* The last n elements of s (all of s when it is shorter).
LastN(s, n) == IF Len(s) <= n THEN s ELSE SubSeq(s, Len(s) - n + 1, Len(s))

Front(s) == SubSeq(s, 1, Len(s) - 1)

(* ------------------------- MarketData and JSON ------------------------- *)

\* A JSON value is a tagged literal: a string, an integer literal, or a
\* number literal with a fraction (held in tenths).  An f64 field of a
\* MarketData is held in tenths.
JStr(s) == [tag |-> "str", v |-> s, n |-> 0]
JInt(n) == [tag |-> "int", v |-> "", n |-> n]
JFrac(t) == [tag |-> "frac", v |-> "", n |-> t]
JNull == [tag |-> "null", v |-> "", n |-> 0]

\* struct MarketData (main.rs:10-15)
MarketData(sym, price, vol, ts) ==
    [symbol |-> sym, price |-> price, volume |-> vol, timestamp |-> ts]

\* serde's visitors for the field types of MarketData.
IsString(j) == j.tag = "str"
IsF64(j) == j.tag \in {"int", "frac"}
\* (every integer literal of the model is below 2^64)
IsU64(j) == j.tag = "int" /\ j.n >= 0
AsF64(j) == IF j.tag = "int" THEN j.n * 10 ELSE j.n

\* DecodeOk of a MarketData derived with #[serde(deny_unknown_fields)].
DecodeOkStrict(obj) ==
    /\ DOMAIN obj = {"symbol", "price", "volume", "timestamp"}
    /\ IsString(obj["symbol"])
    /\ IsF64(obj["price"])
    /\ IsF64(obj["volume"])
    /\ IsU64(obj["timestamp"])

\* serde_json::from_str::<MarketData>(&text) (main.rs:55): Ok exactly when
\* the four fields are present with the right types; the derive has no
\* deny_unknown_fields, so other keys are skipped.
DecodeOk(obj) ==
    /\ {"symbol", "price", "volume", "timestamp"} \subseteq DOMAIN obj
    /\ IsString(obj["symbol"])
    /\ IsF64(obj["price"])
    /\ IsF64(obj["volume"])
    /\ IsU64(obj["timestamp"])

Decode(obj) ==
    MarketData(obj["symbol"].v, AsF64(obj["price"]), AsF64(obj["volume"]),
               obj["timestamp"].n)

\* The record of tests::test_data_storage (main.rs:145-150), with the
\* timestamp as a parameter.
TestRecord(ts) == MarketData("BTCUSD", 500000, 15, ts)

\* Text payloads the peer may send.
GoodFirst == [symbol |-> JStr("BTCUSD"), price |-> JFrac(500000),
              volume |-> JFrac(15), timestamp |-> JInt(1)]
GoodNew == [symbol |-> JStr("ETHUSD"), price |-> JInt(3000),
            volume |-> JFrac(25), timestamp |-> JInt(1234567890)]
NoPrice == [symbol |-> JStr("BTCUSD"), volume |-> JFrac(15),
            timestamp |-> JInt(1234567890)]

TextBodies == {GoodFirst, GoodNew, NoPrice}

\* JSON objects around GoodNew: a member added, dropped or replaced.
With(obj, k, j) == [x \in DOMAIN obj \cup {k} |-> IF x = k THEN j ELSE obj[x]]
Without(obj, k) == [x \in DOMAIN obj \ {k} |-> obj[x]]

ShapedBodies ==
    {GoodNew, With(GoodNew, "exchange", JStr("X")),
     With(NoPrice, "exchange", JStr("X")), With(GoodNew, "bid", JNull)}
    \cup {Without(GoodNew, k) : k \in DOMAIN GoodNew}
    \cup {With(GoodNew, "symbol", j) : j \in {JInt(7), JNull}}
    \cup {With(GoodNew, "price", j) : j \in {JStr("3000"), JFrac(30005)}}
    \cup {With(GoodNew, "volume", j) : j \in {JStr("25"), JInt(2), JNull}}
    \cup {With(GoodNew, "timestamp", j) :
              j \in {JFrac(15), JInt(-1), JStr("1234567890"), JInt(0)}}

\* Ping payloads (byte strings).
PingPayloads == {<<1>>, <<2, 3>>}

\* tungstenite::Message variants and the stream's Err item.
Frame(kind, text, bytes) == [kind |-> kind, text |-> text, bytes |-> bytes]
NoText == [none |-> JInt(0)]
TextFrame(obj) == Frame("Text", obj, <<>>)
PingFrame(p) == Frame("Ping", NoText, p)
PongFrame(p) == Frame("Pong", NoText, p)
BinaryFrame(p) == Frame("Binary", NoText, p)
CloseFrame == Frame("Close", NoText, <<>>)
ErrItem == Frame("Err", NoText, <<>>)
\* The end of the stream: read.next() yields None.
EndItem == Frame("None", NoText, <<>>)

\* serde_json::json!({"type": "subscribe", "channels": [..]}) (main.rs:40-43)
SubscribeMsg == Frame("Text", [type |-> JStr("subscribe"),
                               channels |-> JStr("ticker,trades")], <<>>)

(* ------------------------------- state --------------------------------- *)

VARIABLES
    pc,          \* where connect is: idle, handshake, subscribe, recv,
                 \* write_wait, locked, pushed, pong, done
    result,      \* what connect returned: none (not yet), Ok, Err(cause)
    conn,        \* the transport: none, up (handshake done), refused,
                 \* broken (a send failed)
    market_data, \* the decoded record in hand (main.rs:55), <<>> if none
    payload,     \* the ping payload in hand (main.rs:70)
    store,       \* self.data: the Vec<MarketData> inside the RwLock
    wheld,       \* the RwLock's write guard is alive
    rheld,       \* the readers whose read guard is alive
    lockq,       \* the RwLock's FIFO queue of waiters
    inbox,       \* frames the transport has buffered for read.next()
    sent,        \* frames written to the sink, in order
    callers,     \* the reader tasks that exist
    rpc,         \* where each get_latest_data caller is
    snap,        \* the Vec each caller last got back
    reads,       \* calls each reader has completed
    \* history of the run, read by the properties only
    start,       \* number of records the store held when connect was called
    handled,     \* the items read.next() has yielded, in order
    arrivals,    \* the items the transport has delivered, in order
    total,       \* pushes onto the store since construction
    callN,       \* value of total when each caller made its call
    snapN        \* value of total when each caller cloned the store

vars == <<pc, result, conn, market_data, payload, store, wheld, rheld, lockq,
          inbox, sent, callers, rpc, snap, reads, start, handled, arrivals,
          total, callN, snapN>>

connVars == <<pc, result, market_data, payload, sent>>
readerVars == <<callers, rpc, snap, reads, callN, snapN>>
lockVars == <<wheld, rheld, lockq>>
netVars == <<conn, inbox, arrivals>>

\* connect(&self) borrows the handler, so a run may start on the store an
\* earlier run left: the first n records of a feed, n pushes so far
\* (record i of it is the test record with timestamp i).
StartLens == {0, Capacity - 1, Capacity}

\* The first Capacity records of that feed, and its first n <= Capacity.
PriorFeed == [i \in 1..Capacity |-> TestRecord(i)]
Prior(n) == SubSeq(PriorFeed, 1, n)

\* FeedHandler::new (main.rs:24-29) followed by n pushes, n in lens, with
\* the reader tasks tasks.
InitWith(tasks, lens) ==
    /\ pc = "idle"
    /\ result = "none"
    /\ conn = "none"
    /\ market_data = <<>>
    /\ payload = <<>>
    /\ \E n \in lens : /\ store = Prior(n)
                       /\ start = n
                       /\ total = n
    /\ callers = tasks
    /\ wheld = FALSE
    /\ rheld = {}
    /\ lockq = <<>>
    /\ inbox = <<>>
    /\ sent = <<>>
    /\ rpc = [r \in Readers |-> "idle"]
    /\ snap = [r \in Readers |-> <<>>]
    /\ reads = [r \in Readers |-> 0]
    /\ handled = <<>>
    /\ arrivals = <<>>
    /\ callN = [r \in Readers |-> 0]
    /\ snapN = [r \in Readers |-> 0]

\* main.rs:94-128: one handler, connect spawned, one polling loop.
Init == InitWith(MainLoop, StartLens)

(* ------------------------------ transport ------------------------------ *)

\* The socket is open while connect owns the stream.
Connected == conn = "up" /\ pc # "done"

\* Nothing follows the end of the stream.
Ended == inbox # <<>> /\ inbox[Len(inbox)].kind = "None"

Deliver(f) ==
    /\ Connected
    /\ ~Ended
    /\ Len(arrivals) < MaxFrames
    /\ inbox' = Append(inbox, f)
    /\ arrivals' = Append(arrivals, f)
    /\ UNCHANGED <<connVars, readerVars, lockVars, conn, store, start,
                   handled, total>>

ArriveText == \E obj \in TextBodies : Deliver(TextFrame(obj))
ArriveShaped == \E obj \in ShapedBodies : Deliver(TextFrame(obj))
ArrivePing == \E p \in PingPayloads : Deliver(PingFrame(p))
ArriveClose == Deliver(CloseFrame)
ArriveErr == Deliver(ErrItem)
ArriveOther == Deliver(BinaryFrame(<<7>>)) \/ Deliver(PongFrame(<<1>>))

\* The peer ends the stream: read.next() yields None once the buffer drains.
StreamEnd == Deliver(EndItem)

(* ------------------------- the RwLock (tokio) -------------------------- *)

\* tokio::sync::RwLock is fair: waiters are served in the order they asked.
\* A write request is granted at once only when nobody waits; the readers
\* queued ahead of the first waiting writer are all woken together.
\* A write guard needs the lock free; a read guard needs no write guard.
AtHead(w) == lockq # <<>> /\ Head(lockq) = w
NoWaiter == lockq = <<>>

\* The waiters that asked before w did.
Ahead(w) ==
    {lockq[i] : i \in {j \in 1..Len(lockq) :
                          \A k \in 1..j : lockq[k] # w}}

\* Read permits stay available until a writer asks: the write request takes
\* them all, and those released later go to it first.
WriterWaits == \E i \in 1..Len(lockq) : lockq[i] = "w"
CanWrite == ~wheld /\ rheld = {}

\* CanRead of a lock that lets readers in beside the writer.
CanReadAlways == TRUE

\* CanRead of a lock that admits one reader at a time (a Mutex).
CanReadExclusive == ~wheld /\ rheld = {}

CanRead == ~wheld

(* ------------------------- FeedHandler::connect ------------------------ *)

Return(res) == pc' = "done" /\ result' = res

\* main.rs:31-34  connect is called and awaits connect_async.
Connect ==
    /\ pc = "idle"
    /\ pc' = "handshake"
    /\ UNCHANGED <<result, market_data, payload, sent, readerVars, lockVars,
                   netVars, store, start, handled, total>>

\* main.rs:34-46  the handshake succeeded; the subscription is handed to
\* the sink and connect awaits the send.
HandshakeOk ==
    /\ pc = "handshake"
    /\ conn' = "up"
    /\ pc' = "subscribe"
    /\ UNCHANGED <<result, market_data, payload, sent, readerVars, lockVars,
                   inbox, arrivals, store, start, handled, total>>

\* HandshakeErr with the Err dropped: connect carries on.
HandshakeErrIgnored == pc' = "subscribe" /\ UNCHANGED result

\* The `?` of main.rs:34 on an Err: connect returns it.
HandshakeErr == Return("Err(handshake)")

\* main.rs:34  connect_async(..).await? with an Err.
HandshakeFail ==
    /\ pc = "handshake"
    /\ conn' = "refused"
    /\ HandshakeErr
    /\ UNCHANGED <<market_data, payload, sent, readerVars, lockVars, inbox,
                   arrivals, store, start, handled, total>>

\* Subscribed with the message sent twice.
SubscribedTwice(out) == out \o <<SubscribeMsg, SubscribeMsg>>

\* The sink after write.send(Message::Text(subscribe_msg..)) (main.rs:45-47).
Subscribed(out) == Append(out, SubscribeMsg)

\* main.rs:45-52  the send completed; the loop awaits read.next().
SubscribeSent ==
    /\ pc = "subscribe"
    /\ sent' = Subscribed(sent)
    /\ pc' = "recv"
    /\ UNCHANGED <<result, market_data, payload, readerVars, lockVars,
                   netVars, store, start, handled, total>>

\* SendErr with the Err dropped: the loop carries on.
SendErrIgnored == pc' = "recv" /\ UNCHANGED result

\* The `?` of main.rs:47 and main.rs:71 on an Err: connect returns it.
SendErr == Return("Err(send)")

\* main.rs:45-47  write.send(..).await? with an Err.
SubscribeFail ==
    /\ pc = "subscribe"
    /\ conn' = "broken"
    /\ SendErr
    /\ UNCHANGED <<market_data, payload, sent, readerVars, lockVars, inbox,
                   arrivals, store, start, handled, total>>

\* main.rs:52  read.next() yields the oldest buffered item.
Next_item(kind) ==
    /\ pc = "recv"
    /\ inbox # <<>>
    /\ Head(inbox).kind = kind
    /\ inbox' = Tail(inbox)
    /\ handled' = Append(handled, Head(inbox))
    /\ UNCHANGED <<conn, arrivals, readerVars, store, start, total, rheld>>

\* DropText with the decode error returned (`?` for `if let Ok`).
DropTextFatal == Return("Err(decode)") /\ UNCHANGED <<market_data, lockq>>

\* main.rs:55, 68  the `if let Ok(..)` does not match: nothing happens.
DropText == UNCHANGED <<pc, result, market_data, lockq>>

\* main.rs:54-61  a text frame: decode it; on Ok ask for the write lock,
\* on Err go round the loop.
RecvText ==
    /\ Next_item("Text")
    /\ IF DecodeOk(Head(inbox).text)
       THEN /\ market_data' = <<Decode(Head(inbox).text)>>
            /\ IF NoWaiter /\ CanWrite
               THEN wheld' = TRUE /\ pc' = "locked" /\ UNCHANGED lockq
               ELSE /\ lockq' = Append(lockq, "w")
                    /\ pc' = "write_wait"
                    /\ UNCHANGED wheld
            /\ UNCHANGED result
       ELSE DropText /\ UNCHANGED wheld
    /\ UNCHANGED <<payload, sent>>

\* main.rs:61  self.data.write().await resolves after a wait.
WriteAcquire ==
    /\ pc = "write_wait"
    /\ AtHead("w")
    /\ CanWrite
    /\ lockq' = Tail(lockq)
    /\ wheld' = TRUE
    /\ pc' = "locked"
    /\ UNCHANGED <<result, market_data, payload, sent, readerVars, rheld,
                   netVars, store, start, handled, total>>

\* Pushed with insert(0, ..) for push.
PushedFront(data, md) == <<md>> \o data

\* Vec::push (main.rs:62)
Pushed(data, md) == Append(data, md)

\* main.rs:62  data.push(market_data)
Push ==
    /\ pc = "locked"
    /\ store' = Pushed(store, market_data[1])
    /\ total' = total + 1
    /\ market_data' = <<>>
    /\ pc' = "pushed"
    /\ UNCHANGED <<result, payload, sent, readerVars, lockVars, netVars,
                   start, handled>>

\* Trimmed with `>=` for `>`.
TrimmedAtCapacity(data) == IF Len(data) >= Capacity THEN Tail(data) ELSE data

\* Trimmed with the newest element removed (pop for remove(0)).
TrimmedNewest(data) == IF Len(data) > Capacity THEN Front(data) ELSE data

\* main.rs:65-67  if data.len() > 1000 { data.remove(0); }
Trimmed(data) == IF Len(data) > Capacity THEN Tail(data) ELSE data

\* WriteGuardDropped of a guard that outlives the block.
WriteGuardKept == TRUE

\* Whether the write guard is alive once the block of main.rs:55-68 ends:
\* `data` goes out of scope there.
WriteGuardDropped == FALSE

\* main.rs:65-68  trim, then the write guard is dropped at the end of the
\* block and the loop awaits read.next() again.
Trim ==
    /\ pc = "pushed"
    /\ store' = Trimmed(store)
    /\ wheld' = WriteGuardDropped
    /\ pc' = "recv"
    /\ UNCHANGED <<result, market_data, payload, sent, readerVars, rheld,
                   lockq, netVars, start, handled, total>>

\* main.rs:70-71  a ping: a pong with its payload is handed to the sink.
RecvPing ==
    /\ Next_item("Ping")
    /\ payload' = Head(inbox).bytes
    /\ pc' = "pong"
    /\ UNCHANGED <<result, market_data, sent, lockq, wheld>>

\* Reply with an empty payload.
ReplyEmpty(p) == PongFrame(<<>>)

\* The reply to a ping with payload p (main.rs:71).
Reply(p) == PongFrame(p)

\* main.rs:71  the send completed.
PongSent ==
    /\ pc = "pong"
    /\ sent' = Append(sent, Reply(payload))
    /\ payload' = <<>>
    /\ pc' = "recv"
    /\ UNCHANGED <<result, market_data, readerVars, lockVars, netVars, store,
                   start, handled, total>>

\* main.rs:71  write.send(..).await? with an Err.
PongFail ==
    /\ pc = "pong"
    /\ conn' = "broken"
    /\ SendErr
    /\ UNCHANGED <<market_data, payload, sent, readerVars, lockVars, inbox,
                   arrivals, store, start, handled, total>>

\* CloseArm without the break.
CloseArmContinue == UNCHANGED <<pc, result>>

\* main.rs:75, 85  break, then Ok(()).
CloseArm == Return("Ok")

\* main.rs:73-76, 85  a close frame.
RecvClose ==
    /\ Next_item("Close")
    /\ CloseArm
    /\ UNCHANGED <<market_data, payload, sent, lockq, wheld>>

\* What connect returns after the Err arm (main.rs:77-80, 85): the arm logs
\* and breaks, and the function ends in Ok(()).
ErrArmResult == "Ok"

\* main.rs:77-80, 85  the stream yields Err(e).
RecvErr ==
    /\ Next_item("Err")
    /\ Return(ErrArmResult)
    /\ UNCHANGED <<market_data, payload, sent, lockq, wheld>>

\* OtherArm with a break.
OtherArmBreak == Return("Ok") /\ UNCHANGED sent

\* OtherArm that sends the frame back.
OtherArmEcho == sent' = Append(sent, Head(inbox)) /\ UNCHANGED <<pc, result>>

\* main.rs:81  `_ => {}`
OtherArm == UNCHANGED <<pc, result, sent>>

\* main.rs:81  any other variant: nothing.
RecvOther ==
    /\ \E k \in {"Binary", "Pong"} : Next_item(k)
    /\ OtherArm
    /\ UNCHANGED <<market_data, payload, lockq, wheld>>

\* EndOfStream reported as an error.
EndOfStreamErr == Return("Err(eof)")

\* main.rs:52, 85  the `while let Some(..)` ends, then Ok(()).
EndOfStream == Return("Ok")

\* main.rs:52, 85  read.next() yields None.
RecvNone ==
    /\ Next_item("None")
    /\ EndOfStream
    /\ UNCHANGED <<market_data, payload, sent, lockq, wheld>>

(* --------------------- FeedHandler::get_latest_data -------------------- *)

\* main.rs:88-89  the call asks for the read lock and gets it or waits.
ReadCall(r) ==
    /\ r \in callers
    /\ rpc[r] = "idle"
    /\ reads[r] < MaxReads
    /\ IF ~WriterWaits /\ CanRead
       THEN /\ rheld' = rheld \cup {r}
            /\ rpc' = [rpc EXCEPT ![r] = "reading"]
            /\ UNCHANGED lockq
       ELSE /\ lockq' = Append(lockq, r)
            /\ rpc' = [rpc EXCEPT ![r] = "read_wait"]
            /\ UNCHANGED rheld
    /\ callN' = [callN EXCEPT ![r] = total]
    /\ UNCHANGED <<connVars, netVars, store, wheld, callers, snap, reads,
                   snapN, start, handled, total>>

\* main.rs:89  self.data.read().await resolves after a wait.
ReadAcquire(r) ==
    /\ rpc[r] = "read_wait"
    /\ "w" \notin Ahead(r)
    /\ CanRead
    /\ lockq' = SelectSeq(lockq, LAMBDA w : w # r)
    /\ rheld' = rheld \cup {r}
    /\ rpc' = [rpc EXCEPT ![r] = "reading"]
    /\ UNCHANGED <<connVars, netVars, store, wheld, callers, snap, reads,
                   callN, snapN, start, handled, total>>

\* Clone that keeps one copy of each record.
CloneUnique(data) ==
    SelectSeq([i \in 1..Len(data) |-> <<i, data[i]>>],
              LAMBDA e : \A j \in 1..(e[1] - 1) : data[j] # e[2])

\* Vec::clone (main.rs:90)
Clone(data) == data

\* AfterRead of a read that takes the Vec out (mem::take for clone).
AfterReadTaken(data) == <<>>

\* The Vec after data.clone() on the read guard's shared borrow
\* (main.rs:89-90).
AfterRead(data) == data

\* ReadGuardDropped of a guard that is leaked.
ReadGuardLeaked(held, r) == held

\* The read guards alive once r's guard went out of scope (main.rs:91).
ReadGuardDropped(held, r) == held \ {r}

\* main.rs:90-91  clone the Vec, drop the read guard, return the clone.
ReadClone(r) ==
    /\ rpc[r] = "reading"
    /\ snap' = [snap EXCEPT ![r] = Clone(store)]
    /\ store' = AfterRead(store)
    /\ snapN' = [snapN EXCEPT ![r] = total]
    /\ reads' = [reads EXCEPT ![r] = @ + 1]
    /\ rheld' = ReadGuardDropped(rheld, r)
    /\ rpc' = [rpc EXCEPT ![r] = "idle"]
    /\ UNCHANGED <<connVars, netVars, wheld, lockq, callers, callN, start,
                   handled, total>>

Read == \E r \in Readers : ReadCall(r) \/ ReadAcquire(r) \/ ReadClone(r)

(* --------------------------- specification ----------------------------- *)

Next ==
    \/ ArriveText \/ ArrivePing \/ ArriveClose \/ ArriveErr \/ ArriveOther
    \/ StreamEnd
    \/ Connect \/ HandshakeOk \/ HandshakeFail
    \/ SubscribeSent \/ SubscribeFail
    \/ RecvText \/ WriteAcquire \/ Push \/ Trim
    \/ RecvPing \/ PongSent \/ PongFail
    \/ RecvClose \/ RecvErr \/ RecvOther \/ RecvNone
    \/ Read

Spec == Init /\ [][Next]_vars

\* The handler shared by connect and two concurrent get_latest_data callers
\* (it is an Arc, main.rs:105-106), on an empty store.
LockInit == InitWith(Readers, {0})

\* Every await of connect and of get_latest_data resolves once it can: the
\* tokio runtime polls a woken task, and no step of main.rs:61-68 or
\* main.rs:89-91 suspends between taking a guard and dropping it.
Scheduled ==
    /\ WF_vars(WriteAcquire)
    /\ WF_vars(Push)
    /\ WF_vars(Trim)
    /\ \A r \in Readers : WF_vars(ReadAcquire(r)) /\ WF_vars(ReadClone(r))

\* connect alone on an empty store, fed text frames of every shape.
DecodeInit == InitWith({}, {0})

DecodeNext ==
    \/ ArriveShaped
    \/ Connect \/ HandshakeOk \/ SubscribeSent
    \/ RecvText \/ Push \/ Trim

DecodeSpec == DecodeInit /\ [][DecodeNext]_vars

\* The runs that matter to the lock: records to append and a close that
\* ends connect, against the two callers.
NextLock ==
    \/ ArriveText \/ ArriveClose
    \/ Connect \/ HandshakeOk \/ SubscribeSent
    \/ RecvText \/ WriteAcquire \/ Push \/ Trim
    \/ RecvClose
    \/ Read

LockSpec == LockInit /\ [][NextLock]_vars /\ Scheduled

(* --------------------------- derived history --------------------------- *)

Last(s) == s[Len(s)]

AllDistinct(s) == Cardinality(Range(s)) = Len(s)

\* The records of the text frames of h that decode, in order.
Accepted(h) ==
    LET sel == SelectSeq(h, LAMBDA f : f.kind = "Text" /\ DecodeOk(f.text))
    IN  [i \in 1..Len(sel) |-> Decode(sel[i].text)]

\* The feed is every record decoded since construction: by earlier runs,
\* then from the items h of this one.
FeedOf(h) == Prior(start) \o Accepted(h)

Feed == FeedOf(handled)

\* The store after the first n records of the feed were appended.
Commit(n) == LastN(SubSeq(Feed, 1, n), Capacity)

PingsIn(h) ==
    LET sel == SelectSeq(h, LAMBDA f : f.kind = "Ping")
    IN  [i \in 1..Len(sel) |-> sel[i].bytes]

PongsOut(h) ==
    LET sel == SelectSeq(h, LAMBDA f : f.kind = "Pong")
    IN  [i \in 1..Len(sel) |-> sel[i].bytes]

Recv == RecvText \/ RecvPing \/ RecvClose \/ RecvErr \/ RecvOther \/ RecvNone

(* ------------------------------- claims -------------------------------- *)

\* C1: whenever the write lock is released, the store's length is
\* min(pushes so far, 1000), so it never exceeds 1000.
C1_CapacityInvariant ==
    ~wheld => /\ Len(store) = Min(total, Capacity)
              /\ Len(store) <= Capacity

\* An append that took the store past 1000 pushes has completed.
C1_Witness == ~wheld /\ pc = "recv" /\ total = Capacity + 1

\* C2: once more than 1000 records were appended, the store holds exactly
\* the newest 1000 of them in arrival order (after 1001: records #2..#1001),
\* and, the records being distinct, none of the evicted ones.
C2_FifoEviction ==
    (~wheld /\ total > Capacity) =>
        LET feed == Feed
            kept == Range(store)
        IN  /\ store = SubSeq(feed, total - Capacity + 1, total)
            /\ AllDistinct(SubSeq(feed, 1, total)) =>
                   \A i \in 1..(total - Capacity) : feed[i] \notin kept

\* 1001 distinct records were appended.
C2_Witness ==
    /\ ~wheld
    /\ total = Capacity + 1
    /\ AllDistinct(SubSeq(Feed, 1, total))
    /\ store[1] = TestRecord(2)

\* C3: when the stream yields an error, connect stops and returns an error.
C3_ReceiveFailurePropagated ==
    (handled # <<>> /\ Last(handled).kind = "Err") =>
        (pc = "done" /\ result \notin {"none", "Ok"})

\* C4: once a close frame was received connect has returned Ok, and from
\* then on no buffered frame is taken, answered or appended.
CloseSeen == \E i \in 1..Len(handled) : handled[i].kind = "Close"

C4_Closed ==
    CloseSeen => /\ pc = "done"
                 /\ result = "Ok"
                 /\ Last(handled).kind = "Close"

C4_OrderlyShutdown ==
    /\ []C4_Closed
    /\ [][CloseSeen => UNCHANGED <<handled, inbox, store, sent>>]_vars

\* connect returned on a close frame with frames still buffered.
C4_Witness == CloseSeen /\ pc = "done" /\ inbox # <<>>

\* C5: taking a text frame that does not decode changes neither the store
\* nor what was sent and leaves the loop at the receive point, where the
\* next buffered item can be taken.
BadTextNext ==
    /\ pc = "recv"
    /\ inbox # <<>>
    /\ Head(inbox).kind = "Text"
    /\ ~DecodeOk(Head(inbox).text)

BadTextLast ==
    /\ handled # <<>>
    /\ Last(handled).kind = "Text"
    /\ ~DecodeOk(Last(handled).text)

C5_DecodeFiltering ==
    /\ [][(BadTextNext /\ handled' # handled) =>
              /\ store' = store
              /\ sent' = sent
              /\ pc' = "recv"
              /\ result' = "none"]_vars
    /\ [](BadTextLast => pc = "recv" /\ result = "none")
    /\ []((BadTextLast /\ inbox # <<>>) => ENABLED Recv)

\* A frame was classified after a text frame without the price field.
C5_Witness ==
    /\ Len(handled) >= 2
    /\ handled[1] = TextFrame(NoPrice)
    /\ store = Prior(start)

\* C6: the pongs sent are, in order, the payloads of the pings received,
\* and the pong for a ping is sent before the next item is taken; handling
\* a ping leaves the store alone.
PongPending ==
    \/ pc = "pong"
    \/ pc = "done" /\ handled # <<>> /\ Last(handled).kind = "Ping"

C6_Pongs ==
    PongsOut(sent) = IF PongPending THEN Front(PingsIn(handled))
                                    ELSE PingsIn(handled)

C6_KeepaliveRoundTrip ==
    /\ []C6_Pongs
    /\ [][(pc = "pong" \/ pc' = "pong") => store' = store]_vars

\* Two pings were answered.
C6_Witness == Len(PongsOut(sent)) = 2 /\ pc = "recv"

\* C7: a snapshot cloned after N <= 1000 pushes is the first N records of
\* the feed, in order and with duplicates, whatever was appended since.
C7_SnapshotIsolation ==
    \A r \in Readers :
        (reads[r] > 0 /\ snapN[r] <= Capacity) =>
            snap[r] = SubSeq(Feed, 1, snapN[r])

\* A full snapshot holding a duplicate outlived an eviction.
C7_Witness ==
    \E r \in Readers :
        /\ reads[r] > 0
        /\ snapN[r] = Capacity
        /\ total > Capacity
        /\ ~wheld
        /\ snap[r] # store
        /\ snap[r][1] = snap[r][Capacity]

\* C8: items are taken in arrival order, and the store is the last 1000
\* of the records decoded from the items taken so far, in that order (the
\* record in hand joins it by the append in progress).
Taken == SubSeq(arrivals, 1, Len(handled))

C8_ArrivalOrder ==
    LET decoded == FeedOf(Taken)
    IN  /\ handled = Taken
        /\ arrivals = handled \o inbox
        /\ CASE pc \in {"write_wait", "locked"} ->
                    store = LastN(Front(decoded), Capacity)
             [] pc = "pushed" ->
                    store = Append(LastN(Front(decoded), Capacity),
                                   Last(decoded))
             [] OTHER ->
                    store = LastN(decoded, Capacity)

\* A record was appended, with eviction, after an item that is no record.
C8_Witness ==
    /\ start = Capacity
    /\ Len(handled) = 2
    /\ ~(handled[1].kind = "Text" /\ DecodeOk(handled[1].text))
    /\ total = Capacity + 1
    /\ pc = "recv"

\* C9: the Vec a get_latest_data call returns is the store as it was
\* between two appends: never the 1001-element state inside one.
C9_NoTornReads ==
    \A r \in Readers :
        reads[r] > 0 => /\ Len(snap[r]) <= Capacity
                        /\ snap[r] = Commit(snapN[r])

\* A call made before a push returned after the eviction that followed it.
C9_Witness ==
    \E r \in Readers :
        /\ reads[r] > 0
        /\ callN[r] = Capacity
        /\ snapN[r] = Capacity + 1

\* C10: after a failed handshake connect has returned the error; nothing
\* was sent or received, the store is as it was, and connect stays
\* returned.
C10_HandshakeFailure ==
    conn = "refused" =>
        /\ pc = "done"
        /\ result = "Err(handshake)"
        /\ sent = <<>>
        /\ handled = <<>>
        /\ arrivals = <<>>
        /\ store = Prior(start)
        /\ total = start

\* The handshake failed on a handler whose store is full.
C10_Witness == conn = "refused" /\ start = Capacity

\* C11: nothing is sent before the handshake succeeds; the subscription is
\* the first message sent, it is sent before any item is taken from the
\* stream, and it is sent once (not at all only when its send fails).
Subscriptions == Len(SelectSeq(sent, LAMBDA f : f = SubscribeMsg))

Streaming == pc \in {"recv", "write_wait", "locked", "pushed", "pong"}

C11_SubscriptionHandshake ==
    /\ Subscriptions <= 1
    /\ conn \in {"none", "refused"} => sent = <<>>
    /\ pc \in {"idle", "handshake", "subscribe"} => sent = <<>> /\ handled = <<>>
    /\ (Streaming \/ handled # <<>> \/ result = "Ok") =>
           /\ conn # "none"
           /\ sent # <<>>
           /\ sent[1] = SubscribeMsg
           /\ Subscriptions = 1

\* A run that answered a ping and ended: one subscription, sent first.
C11_Witness ==
    /\ pc = "done"
    /\ result = "Ok"
    /\ Len(sent) = 2
    /\ Len(handled) = 2

\* C12: once a send has failed connect has returned the send error, and
\* from then on no item is taken, nothing is sent and the store is not
\* modified.
C12_Returned == conn = "broken" => pc = "done" /\ result = "Err(send)"

C12_SendFailure ==
    /\ []C12_Returned
    /\ [][conn = "broken" => UNCHANGED <<handled, inbox, store, sent>>]_vars
    /\ [][conn' = "broken" => UNCHANGED <<handled, inbox, store, sent>>]_vars

\* A pong could not be sent while another frame was buffered.
C12_Witness ==
    /\ conn = "broken"
    /\ handled # <<>>
    /\ Last(handled).kind = "Ping"
    /\ inbox # <<>>

\* The steps of connect (everything but the transport and the readers).
Loop ==
    \/ Connect \/ HandshakeOk \/ HandshakeFail \/ SubscribeSent
    \/ SubscribeFail \/ Recv \/ WriteAcquire \/ Push \/ Trim
    \/ PongSent \/ PongFail

NextKind(kinds) ==
    /\ pc = "recv"
    /\ inbox # <<>>
    /\ Head(inbox).kind \in kinds
    /\ handled' = Append(handled, Head(inbox))

PongSendFails == pc = "pong" /\ conn' = "broken"

\* C16 as stated: while streaming, connect returns only on a close frame,
\* a receive error or a send failure.
C16_ReturnsOnlyOnCloseOrError ==
    [][(Streaming /\ pc' = "done") =>
           (NextKind({"Close", "Err"}) \/ PongSendFails)]_vars

\* C16, amended: while streaming, connect returns only on a close frame, a
\* receive error, the end of the stream or a send failure; parked at the
\* receive point with nothing buffered, it has no step to take (no timeout).
C16_ReturnsOnlyOnTerminal ==
    /\ [][(Streaming /\ pc' = "done") =>
              (NextKind({"Close", "Err", "None"}) \/ PongSendFails)]_vars
    /\ []((pc = "recv" /\ inbox = <<>>) => ~ENABLED Loop)

\* connect returned because the stream ended, after taking a frame.
C16_Witness ==
    /\ pc = "done"
    /\ Len(handled) = 2
    /\ Last(handled).kind = "None"
    /\ \A i \in 1..Len(handled) : handled[i].kind \notin {"Close", "Err"}

\* C17: taking a frame that is neither text, ping, close nor an error (nor
\* the end of the stream) changes neither the store nor what was sent, and
\* leaves the loop at the receive point, where the next item can be taken.
OtherKind(f) == f.kind \notin {"Text", "Ping", "Close", "Err", "None"}

OtherNext == pc = "recv" /\ inbox # <<>> /\ OtherKind(Head(inbox))

OtherLast == handled # <<>> /\ OtherKind(Last(handled))

C17_OtherVariantsIgnored ==
    /\ [][(OtherNext /\ handled' # handled) =>
              /\ store' = store
              /\ sent' = sent
              /\ pc' = "recv"
              /\ result' = "none"
              /\ UNCHANGED <<wheld, lockq, market_data, payload>>]_vars
    /\ [](OtherLast => pc = "recv" /\ result = "none")
    /\ []((OtherLast /\ inbox # <<>>) => ENABLED Recv)

\* A binary frame and then a pong frame were taken.
C17_Witness ==
    /\ Len(handled) = 2
    /\ handled[1].kind = "Binary"
    /\ handled[2].kind = "Pong"
    /\ Len(sent) = 1

\* C18: no step of get_latest_data changes the store; the store changes
\* only in the loop's append, under the write guard; and with the guard
\* dropped it is the last 1000 of the records pushed, whatever was read.
ReaderStep == \E r \in Readers : rpc'[r] # rpc[r]

C18_ReadsDoNotMutate ==
    /\ [][ReaderStep => store' = store]_vars
    /\ [][store' # store =>
              /\ wheld
              /\ pc \in {"locked", "pushed"}
              /\ ~ReaderStep]_vars
    /\ [](~wheld => store = Commit(total))

\* A snapshot was taken between a push past capacity and the return.
C18_Witness ==
    \E r \in Readers :
        /\ reads[r] > 0
        /\ callN[r] = Capacity + 1
        /\ pc = "done"
        /\ store = Commit(total)

\* C19: while connect awaits the handshake, a send or the next item, the
\* write guard is not alive and connect is not queued for it, so the first
\* waiting reader can take the lock.
Suspended == pc \in {"handshake", "subscribe", "recv", "pong"}

C19_NoLockAcrossAwait ==
    Suspended =>
        /\ ~wheld
        /\ \A i \in 1..Len(lockq) : lockq[i] # "w"
        /\ lockq # <<>> => ENABLED ReadAcquire(Head(lockq))

\* connect awaits the send of a pong, after an append, with a reader
\* waiting for the lock.
C19_Witness == pc = "pong" /\ total > start /\ lockq # <<>>

\* C20: once read.next() has yielded None connect has returned Ok, and the
\* store is the last 1000 of the records decoded before it.
EndSeen == handled # <<>> /\ Last(handled).kind = "None"

C20_EndOfStream ==
    EndSeen =>
        /\ pc = "done"
        /\ result = "Ok"
        /\ ~wheld
        /\ store = LastN(FeedOf(Front(handled)), Capacity)
        /\ total = start + Len(Accepted(Front(handled)))

\* The stream ended, with no close frame, after a record that evicted one.
C20_Witness ==
    /\ EndSeen
    /\ Len(handled) = 2
    /\ total = Capacity + 1

\* C13: no state has a task waiting for the lock with nothing able to
\* move; under fair scheduling every get_latest_data call that has started
\* completes, and every append that has started completes and leaves the
\* loop past it with the guard dropped.
LockStep ==
    \/ WriteAcquire \/ Push \/ Trim
    \/ \E r \in Readers : ReadAcquire(r) \/ ReadClone(r)

Appending == pc \in {"write_wait", "locked", "pushed"}

C13_DeadlockFreedom ==
    /\ []((lockq # <<>> \/ wheld \/ rheld # {}) => ENABLED LockStep)
    /\ \A r \in Readers : (rpc[r] # "idle") ~> (rpc[r] = "idle")
    /\ Appending ~> (~Appending /\ ~wheld)

\* Both callers wait for the lock while the loop holds the write guard.
C13_Witness ==
    /\ wheld
    /\ Len(lockq) = 2
    /\ \A r \in Readers : rpc[r] = "read_wait"

\* C14 as stated: a get_latest_data call that cannot take the read lock is
\* kept out by a write guard, never by another reader or by the loop queued
\* behind one.
C14_ReadersNeverBlock ==
    \A r \in Readers :
        (rpc[r] = "read_wait" /\ ~ENABLED ReadAcquire(r)) => wheld

\* C14, amended: a get_latest_data call that cannot take the read lock is
\* kept out by a write guard or by the loop queued for the write lock ahead
\* of it; and a call made while the loop neither holds nor awaits the write
\* lock is granted at once, whatever other readers hold.
C14_ReadersWaitOnlyForWriter ==
    /\ [](\A r \in Readers :
             (rpc[r] = "read_wait" /\ ~ENABLED ReadAcquire(r)) =>
                 (wheld \/ "w" \in Ahead(r)))
    /\ [][\A r \in Readers :
             (rpc[r] = "idle" /\ rpc'[r] # "idle" /\ ~wheld /\ ~WriterWaits)
                 => (rpc'[r] = "reading" /\ r \in rheld')]_vars

\* One caller holds a read guard, the loop is queued behind it, and the
\* other caller is queued behind the loop; and the two callers read at once.
C14_Witness ==
    \E r1, r2 \in Readers :
        /\ r1 # r2
        /\ r1 \in rheld
        /\ lockq = <<"w", r2>>

\* The record shape, as the specification words it: a symbol string, a
\* price number, a volume number, a timestamp unsigned integer.
Fields == {"symbol", "price", "volume", "timestamp"}

IsNumber(j) == j.tag = "int" \/ j.tag = "frac"

IsUnsigned(j) == j.tag = "int" /\ ~(j.n < 0)

FieldsFit(obj) ==
    /\ obj["symbol"].tag = "str"
    /\ IsNumber(obj["price"])
    /\ IsNumber(obj["volume"])
    /\ IsUnsigned(obj["timestamp"])

\* Exactly the four fields, each of its type.
ExactShape(obj) == DOMAIN obj = Fields /\ FieldsFit(obj)

\* The four fields, each of its type, among any others.
HasShape(obj) == Fields \subseteq DOMAIN obj /\ FieldsFit(obj)

RecordOf(obj) ==
    [symbol |-> obj["symbol"].v,
     price |-> IF obj["price"].tag = "int"
               THEN 10 * obj["price"].n ELSE obj["price"].n,
     volume |-> IF obj["volume"].tag = "int"
                THEN 10 * obj["volume"].n ELSE obj["volume"].n,
     timestamp |-> obj["timestamp"].n]

\* The records of the text frames of h whose payload satisfies Shape.
RecordsOf(Shape(_), h) ==
    LET sel == SelectSeq(h, LAMBDA f : f.kind = "Text" /\ Shape(f.text))
    IN  [i \in 1..Len(sel) |-> RecordOf(sel[i].text)]

Settled == pc \in {"recv", "done"}

====
